---------------------------- MODULE Spec2Model ----------------------------
(***************************************************************************)
(* Version-namespaced routing of the GOV.UK prototype kit demo.            *)
(*                                                                         *)
(* app/views/v1/routing.js exports a factory that builds a sub-router      *)
(* with one middleware (the redirect rewriter, lines 6-15) and two POST    *)
(* routes (lines 19-25).  app/routes.js (README lines 117-126) mounts one  *)
(* such sub-router per version prefix.                                     *)
(*                                                                         *)
(* Strings are sequences of one-character strings, so that startsWith and  *)
(* + are computed character by character.  Every request owns one          *)
(* request/response pair; the pair of client c is req[c], res[c].          *)
(* res[c].redirect is the chain of closures installed over the host        *)
(* framework's redirect primitive: <<>> is the primitive itself.           *)
(***************************************************************************)
EXTENDS Integers, Sequences, FiniteSets, TLC

VARIABLES
    mounts,   \* app/routes.js: the mount prefixes, in registration order
    stack,    \* the sub-router's layers, in registration order
    req,      \* req[c]: [method, url, baseUrl, path]
    res,      \* res[c]: [redirect, headersSent, status, location]
    pc,       \* pc[c]: where request c is in the router pipeline
    asked,    \* history: the redirect calls made by handlers of request c
    ran,      \* history: how often the rewriter ran for request c
    nexts,    \* history: how often the rewriter called next() for request c
    trail     \* history: the redirect targets client c has followed

vars == <<mounts, stack, req, res, pc, asked, ran, nexts, trail>>

-----------------------------------------------------------------------------
(* Bounds *)

NumClients == 2
MaxCalls == 2
MaxHops == 2
MaxInstalls == 2

Clients == 1..NumClients

-----------------------------------------------------------------------------
(* Strings *)

Empty == <<>>
Slash == <<"/">>
V1 == <<"/", "v", "1">>
V2 == <<"/", "v", "2">>
Question1 == <<"/", "q", "u", "e", "s", "t", "i", "o", "n", "-", "1">>
Question2 == <<"/", "q", "u", "e", "s", "t", "i", "o", "n", "-", "2">>
SignIn == <<"/", "s", "i", "g", "n", "-", "i", "n">>
Elsewhere ==
    <<"h", "t", "t", "p", "s", ":", "/", "/", "e", "x", "a", "m", "p", "l", "e",
      ".", "c", "o", "m", "/", "e", "l", "s", "e", "w", "h", "e", "r", "e">>
Relative == <<"q", "u", "e", "s", "t", "i", "o", "n", "-", "2">>
Other == <<"/", "o", "t", "h", "e", "r">>

\* String.prototype.startsWith
StartsWith(s, prefix) ==
    /\ Len(s) >= Len(prefix)
    /\ SubSeq(s, 1, Len(prefix)) = prefix

\* s with its first n characters removed
Drop(s, n) == SubSeq(s, n + 1, Len(s))

Min(S) == CHOOSE x \in S : \A y \in S : x <= y

-----------------------------------------------------------------------------
(* Inputs *)

\* The request lines clients send: the form posts of every mounted version,
\* a post to the added route and a GET of a page under the first mount, and a
\* post to a path no version prefix covers.
QuestionUrls == {p \o q : p \in {V1, V2, Empty}, q \in {Question1, Question2}}
RequestLines ==
    {[method |-> "POST", url |-> mounts[i] \o q] :
        i \in 1..Len(mounts), q \in {Question1, Question2}}
      \cup {[method |-> "POST", url |-> mounts[1] \o SignIn],
             [method |-> "GET", url |-> mounts[1] \o Question1],
             [method |-> "POST", url |-> Other]}

\* The targets a handler may pass to res.redirect: path-absolute, a full URL,
\* the empty string, a relative path.
Targets == {Question2, Elsewhere, Empty, Relative}

\* What a handler does: the targets it passes to res.redirect, in order.
Scripts == UNION {[1..n -> Targets] : n \in 1..MaxCalls}

\* The mount tables of app/routes.js: the documented one, and a sub-router
\* mounted at the root.
MountTables == {<<V1, V2>>, <<Empty>>}

-----------------------------------------------------------------------------
(* Values *)

Undefined == [kind |-> "undefined"]
NoReceiver == 0
NoError == "none"

NoRequest == [method |-> "", url |-> Empty, baseUrl |-> Empty, path |-> Empty]
\* A response as the host framework creates it: redirect is the primitive.
NewResponse ==
    [redirect |-> <<>>, headersSent |-> FALSE, status |-> 0, location |-> Empty]

Idle == [at |-> "idle", mount |-> 0, layer |-> 0]
Done == [at |-> "done", mount |-> 0, layer |-> 0]

-----------------------------------------------------------------------------
(* The host framework's router *)

\* router.use(prefix, subRouter) matches a URL that starts with the prefix at
\* a segment boundary.
MountMatches(prefix, url) ==
    /\ StartsWith(url, prefix)
    /\ \/ Len(url) = Len(prefix)
       \/ url[Len(prefix) + 1] = "/"

\* The first mount at or after index i that matches url; 0 when none does.
MountFrom(i, url) ==
    LET S == {j \in i..Len(mounts) : MountMatches(mounts[j], url)}
    IN  IF S = {} THEN 0 ELSE Min(S)

\* Whether a layer of the sub-router handles a request.
LayerMatches(layer, method, path) ==
    CASE layer = "rewriter" -> TRUE
      [] layer = "post /question-1" -> method = "POST" /\ path = Question1
      [] layer = "post /question-2" -> method = "POST" /\ path = Question2
      [] layer = "post /sign-in" -> method = "POST" /\ path = SignIn
      [] OTHER -> FALSE

\* The first layer at or after index i that handles the request; 0 when none.
LayerFrom(i, method, path) ==
    LET S == {j \in i..Len(stack) : LayerMatches(stack[j], method, path)}
    IN  IF S = {} THEN 0 ELSE Min(S)

\* Dispatch at the parent router from mount index i on: the request enters
\* the first matching sub-router with baseUrl set to its prefix and the path
\* trimmed, or runs off the mounts with baseUrl restored.
Dispatch(r, i) ==
    LET j == MountFrom(i, r.url)
        rest == Drop(r.url, Len(mounts[j]))
        path == IF rest = Empty THEN Slash ELSE rest
    IN  IF j = 0
        THEN [req |-> [r EXCEPT !.baseUrl = Empty, !.path = r.url],
              pc |-> [at |-> "parent", mount |-> 0, layer |-> 0]]
        ELSE [req |-> [r EXCEPT !.baseUrl = mounts[j], !.path = path],
              pc |-> [at |-> "sub", mount |-> j,
                      layer |-> LayerFrom(1, r.method, path)]]

-----------------------------------------------------------------------------
(* module.exports: the sub-router *)

\* Faulty variant of SubRouter: the routes registered before the rewriter.
SubRouterRoutesFirst(installs) ==
    <<"post /question-1", "post /question-2", "post /sign-in">>
        \o [i \in 1..installs |-> "rewriter"]

\* routing.js registers the rewriter first, then the routes.  The third
\* route is the one the README tells users to add.
SubRouter(installs) ==
    [i \in 1..installs |-> "rewriter"]
        \o <<"post /question-1", "post /question-2", "post /sign-in">>

\* The host framework's res.redirect(url), called on receiver recv while the
\* response's headers are or are not sent.
OriginalRedirect(recv, url, headersSent) ==
    IF recv = NoReceiver
    THEN [made |-> <<[recv |-> recv, url |-> url]>>,
          err |-> "TypeError", ret |-> Undefined, sent |-> FALSE]
    ELSE IF headersSent
    THEN [made |-> <<[recv |-> recv, url |-> url]>>,
          err |-> "ERR_HTTP_HEADERS_SENT", ret |-> Undefined, sent |-> FALSE]
    ELSE [made |-> <<[recv |-> recv, url |-> url]>>,
          err |-> NoError, ret |-> [kind |-> "redirected", to |-> url],
          sent |-> TRUE]

\* Faulty variants of Rewrite: the test or the concatenation gone wrong.
RewriteNever(url, baseUrl) == url
RewriteAlways(url, baseUrl) == baseUrl \o url
RewriteAppend(url, baseUrl) ==
    IF StartsWith(url, Slash) THEN url \o baseUrl ELSE url

\* routing.js 9-11: the url the wrapper passes on.
Rewrite(url, baseUrl) ==
    IF StartsWith(url, Slash) THEN baseUrl \o url ELSE url

\* Faulty variant of BaseUrlOf: the prefix captured when the closure was made.
BaseUrlAtInstall(closure) == closure.installedAt

\* routing.js 10: req.baseUrl, read through the closure's req when the
\* wrapper is called.
BaseUrlOf(closure) == req[closure.req].baseUrl

\* Faulty variant of This: originalRedirect(url), called without a receiver.
ThisDropped(recv) == NoReceiver

\* routing.js 12: the receiver the wrapper passes to originalRedirect.
This(recv) == recv

\* Faulty variant of Return: the wrapper catches what originalRedirect throws.
ReturnCaught(outcome) ==
    IF outcome.err = NoError THEN outcome
    ELSE [outcome EXCEPT !.err = NoError, !.ret = Undefined]

\* routing.js 12: the wrapper returns (or lets escape) what the call of
\* originalRedirect produced.
Return(outcome) == outcome

\* Calling the function k closures above the primitive.
RECURSIVE Call(_, _, _, _, _)
Call(fn, k, recv, url, headersSent) ==
    IF k = 0
    THEN OriginalRedirect(recv, url, headersSent)
    ELSE Return(Call(fn, k - 1, This(recv),
                     Rewrite(url, BaseUrlOf(fn[k])), headersSent))

\* Faulty variant of InstallRewriter: the method is replaced on what all
\* responses share.
InstallOnPrototype(all, c) ==
    [d \in Clients |->
        [all[d] EXCEPT !.redirect =
            Append(@, [req |-> c, installedAt |-> req[c].baseUrl])]]

\* routing.js 7-13: res.redirect of response c becomes a closure over req
\* (of the same pair) and the function that was there.
InstallRewriter(all, c) ==
    [all EXCEPT ![c].redirect =
        Append(@, [req |-> c, installedAt |-> req[c].baseUrl])]

\* Faulty variant of Question1Handler: the version written into the target.
Question1HandlerHardcoded == <<V1 \o Question2>>

\* routing.js 19-21 and 23-25: what the two handlers pass to res.redirect.
Question1Handler == <<Question2>>
Question2Handler == <<Question1>>

\* A handler of request c running script from its i-th call on: each call
\* looks res.redirect up on the response and calls it on the response; an
\* exception ends the handler.  st is [res, asked].  The entry added to asked
\* records the call as the handler saw it: its target, the request's baseUrl
\* and place (in the sub-router mounted at `mount', or in the parent router),
\* the function called, and what came of it.
RECURSIVE Run(_, _, _, _)
Run(c, script, i, st) ==
    IF i > Len(script) THEN st
    ELSE
        LET fn == st.res.redirect
            out == Call(fn, Len(fn), c, script[i], st.res.headersSent)
            entry == [target |-> script[i],
                      baseUrl |-> req[c].baseUrl,
                      at |-> pc[c].at,
                      mount |-> IF pc[c].at = "sub"
                                THEN mounts[pc[c].mount] ELSE Empty,
                      via |-> fn,
                      headersSent |-> st.res.headersSent,
                      made |-> out.made,
                      err |-> out.err,
                      ret |-> out.ret]
            r2 == IF out.sent
                  THEN [st.res EXCEPT !.headersSent = TRUE, !.status = 302,
                                      !.location = out.made[Len(out.made)].url]
                  ELSE st.res
            st2 == [res |-> r2, asked |-> Append(st.asked, entry)]
        IN  IF out.err # NoError THEN st2 ELSE Run(c, script, i + 1, st2)

\* The handler of request c runs script and ends the request.
Handle(c, script) ==
    LET st == Run(c, script, 1, [res |-> res[c], asked |-> asked[c]])
    IN  /\ res' = [res EXCEPT ![c] = st.res]
        /\ asked' = [asked EXCEPT ![c] = st.asked]
        /\ pc' = [pc EXCEPT ![c] = Done]
        /\ UNCHANGED <<mounts, stack, req, ran, nexts, trail>>

AtLayer(c, name) ==
    /\ pc[c].at = "sub"
    /\ pc[c].layer # 0
    /\ stack[pc[c].layer] = name

-----------------------------------------------------------------------------
(* Actions *)

\* A new request/response pair enters the parent router.
Begin(c, line, followed) ==
    LET d == Dispatch([NoRequest EXCEPT !.method = line.method,
                                        !.url = line.url,
                                        !.path = line.url], 1)
    IN  /\ req' = [req EXCEPT ![c] = d.req]
        /\ pc' = [pc EXCEPT ![c] = d.pc]
        /\ res' = [res EXCEPT ![c] = NewResponse]
        /\ asked' = [asked EXCEPT ![c] = <<>>]
        /\ ran' = [ran EXCEPT ![c] = 0]
        /\ nexts' = [nexts EXCEPT ![c] = 0]
        /\ trail' = [trail EXCEPT ![c] = Append(followed, line)]
        /\ UNCHANGED <<mounts, stack>>

\* Client c sends a request of its own choice.
Arrive(c, line) ==
    /\ pc[c].at = "idle"
    /\ Begin(c, line, <<>>)

\* Client c, redirected by a form post to a question page of the site,
\* submits that page's form: a POST to the redirect's target.
Follow(c) ==
    /\ pc[c].at = "done"
    /\ trail[c][Len(trail[c])].method = "POST"
    /\ trail[c][Len(trail[c])].url \in QuestionUrls
    /\ res[c].status = 302
    /\ res[c].location \in QuestionUrls
    /\ Len(trail[c]) <= MaxHops
    /\ Begin(c, [method |-> "POST", url |-> res[c].location], trail[c])

\* The response is complete and the request/response pair is discarded.
Complete(c) ==
    /\ pc[c].at = "done"
    /\ req' = [req EXCEPT ![c] = NoRequest]
    /\ res' = [res EXCEPT ![c] = NewResponse]
    /\ pc' = [pc EXCEPT ![c] = Idle]
    /\ asked' = [asked EXCEPT ![c] = <<>>]
    /\ ran' = [ran EXCEPT ![c] = 0]
    /\ nexts' = [nexts EXCEPT ![c] = 0]
    /\ trail' = [trail EXCEPT ![c] = <<>>]
    /\ UNCHANGED <<mounts, stack>>

\* routing.js 6-15: the rewriter replaces res.redirect and calls next().
Rewriter(c) ==
    /\ AtLayer(c, "rewriter")
    /\ res' = InstallRewriter(res, c)
    /\ ran' = [ran EXCEPT ![c] = @ + 1]
    /\ nexts' = [nexts EXCEPT ![c] = @ + 1]
    /\ pc' = [pc EXCEPT ![c].layer =
                LayerFrom(pc[c].layer + 1, req[c].method, req[c].path)]
    /\ UNCHANGED <<mounts, stack, req, asked, trail>>

\* routing.js 19-21
PostQuestion1(c) ==
    /\ AtLayer(c, "post /question-1")
    /\ Handle(c, Question1Handler)

\* routing.js 23-25
PostQuestion2(c) ==
    /\ AtLayer(c, "post /question-2")
    /\ Handle(c, Question2Handler)

\* A route added to the sub-router as the README describes; its handler
\* calls res.redirect with targets of its own.
PostSignIn(c, script) ==
    /\ AtLayer(c, "post /sign-in")
    /\ Handle(c, script)

\* No layer of the sub-router is left: the request goes back to the parent
\* router, which restores req.baseUrl and tries the mounts that follow.
LeaveSubRouter(c) ==
    /\ pc[c].at = "sub"
    /\ pc[c].layer = 0
    /\ LET d == Dispatch(req[c], pc[c].mount + 1)
       IN  /\ req' = [req EXCEPT ![c] = d.req]
           /\ pc' = [pc EXCEPT ![c] = d.pc]
    /\ UNCHANGED <<mounts, stack, res, asked, ran, nexts, trail>>

\* A handler of the host application, after the mounts, redirects.
ParentRedirect(c, t) ==
    /\ pc[c].at = "parent"
    /\ Handle(c, <<t>>)

\* The host application answers without a redirect.
NotFound(c) ==
    /\ pc[c].at = "parent"
    /\ res' = [res EXCEPT ![c].headersSent = TRUE, ![c].status = 404]
    /\ pc' = [pc EXCEPT ![c] = Done]
    /\ UNCHANGED <<mounts, stack, req, asked, ran, nexts, trail>>

-----------------------------------------------------------------------------
(* Specifications *)

InitPairs ==
    /\ req = [c \in Clients |-> NoRequest]
    /\ res = [c \in Clients |-> NewResponse]
    /\ pc = [c \in Clients |-> Idle]
    /\ asked = [c \in Clients |-> <<>>]
    /\ ran = [c \in Clients |-> 0]
    /\ nexts = [c \in Clients |-> 0]
    /\ trail = [c \in Clients |-> <<>>]

\* routing.js as written: the rewriter is registered once.
Init ==
    /\ mounts \in MountTables
    /\ stack = SubRouter(1)
    /\ InitPairs

\* The rewriter registered on the sub-router once or several times.
InitReinstall ==
    /\ mounts \in MountTables
    /\ stack \in {SubRouter(n) : n \in 1..MaxInstalls}
    /\ InitPairs

Next ==
    \E c \in Clients :
        \/ \E line \in RequestLines : Arrive(c, line)
        \/ Complete(c)
        \/ Rewriter(c)
        \/ PostQuestion1(c)
        \/ PostQuestion2(c)
        \/ \E script \in Scripts : PostSignIn(c, script)
        \/ LeaveSubRouter(c)
        \/ \E t \in Targets : ParentRedirect(c, t)
        \/ NotFound(c)

Spec == Init /\ [][Next]_vars

SpecReinstall == InitReinstall /\ [][Next]_vars

\* The README's example workflow: clients post the question forms and follow
\* the redirects they get.
NextWorkflow ==
    \E c \in Clients :
        \/ \E line \in RequestLines : Arrive(c, line)
        \/ Follow(c)
        \/ Complete(c)
        \/ Rewriter(c)
        \/ PostQuestion1(c)
        \/ PostQuestion2(c)
        \/ LeaveSubRouter(c)
        \/ NotFound(c)

SpecWorkflow == Init /\ [][NextWorkflow]_vars

-----------------------------------------------------------------------------
(* Properties *)

\* The redirect calls handlers of request c have made.
Entries(c) == {asked[c][i] : i \in 1..Len(asked[c])}

Wrapped(e) == Len(e.via) >= 1
PathAbsolute(t) == StartsWith(t, Slash)

\* The url the primitive was given by the call e.
Destination(e) == e.made[Len(e.made)].url

\* url is the prefix itself or a path below it.
Under(prefix, url) == url = prefix \/ StartsWith(url, prefix \o Slash)

\* C1: a wrapped redirect called in the sub-router mounted at p with a target
\* t that begins with "/" calls the original redirect once, with p + t; with
\* p empty that is t itself.
C1_PrefixesPathAbsolute ==
    \A c \in Clients : \A e \in Entries(c) :
        (Wrapped(e) /\ e.at = "sub" /\ PathAbsolute(e.target)) =>
            /\ Len(e.made) = 1
            /\ Destination(e) = e.mount \o e.target
            /\ (e.mount = Empty => Destination(e) = e.target)

\* C1 witness: under a sub-router mounted at the root, /question-2 reached
\* the original redirect as /question-2.
C1_Witness ==
    \E c \in Clients : \E e \in Entries(c) :
        /\ Wrapped(e) /\ e.at = "sub"
        /\ e.mount = Empty
        /\ e.target = Question2
        /\ Destination(e) = Question2

\* C2: a wrapped redirect called with a target that does not begin with "/"
\* (a full URL, a relative path, the empty string) calls the original
\* redirect with that target unchanged.
C2_PassesOthersThrough ==
    \A c \in Clients : \A e \in Entries(c) :
        (Wrapped(e) /\ ~PathAbsolute(e.target)) =>
            /\ Len(e.made) = 1
            /\ Destination(e) = e.target

\* C2 witness: under /v1 a full URL and the empty string have each been
\* passed through.
C2_Witness ==
    \E c \in Clients : \E e, f \in Entries(c) :
        /\ Wrapped(e) /\ e.mount = V1
        /\ e.target = Elsewhere /\ Destination(e) = Elsewhere
        /\ Wrapped(f) /\ f.mount = V1
        /\ f.target = Empty /\ Destination(f) = Empty

\* url names a scheme of its own: a full URL, not a reference into the site.
HasScheme(url) ==
    \E i \in 1..Len(url) :
        /\ url[i] = ":"
        /\ \A j \in 1..(i - 1) : url[j] # "/"

\* Where a destination leads for a request under prefix: a path-absolute one
\* to itself, a full URL to another site, and any other (a relative path,
\* the empty string) to a page beside the request's own, which is under
\* prefix.
StaysUnder(prefix, url) ==
    IF PathAbsolute(url) THEN Under(prefix, url) ELSE ~HasScheme(url)

\* C3 as claimed: whatever target a handler in the sub-router mounted at p
\* passes to redirect, the destination given to the original redirect lies
\* under p.
C3_AnyTargetStaysInVersion ==
    \A c \in Clients : \A e \in Entries(c) :
        e.at = "sub" => StaysUnder(e.mount, Destination(e))

\* C3 amended: when a handler in the sub-router mounted at p passes a target
\* that begins with "/", the destination given to the original redirect is p
\* followed by a path, so lies under p.
C3_PathAbsoluteStaysInVersion ==
    \A c \in Clients : \A e \in Entries(c) :
        (e.at = "sub" /\ PathAbsolute(e.target)) =>
            Under(e.mount, Destination(e))

\* C3 witness: a handler under /v2 has redirected to a path-absolute target.
C3_Witness ==
    \E c \in Clients : \E e \in Entries(c) :
        /\ e.at = "sub" /\ e.mount = V2
        /\ PathAbsolute(e.target)
        /\ StartsWith(Destination(e), V2 \o Slash)

-----------------------------------------------------------------------------

OtherQuestion(q) == IF q = Question1 THEN Question2 ELSE Question1

\* The question the k-th request of a run that began at q posts to.
QuestionAt(q, k) == IF k % 2 = 1 THEN q ELSE OtherQuestion(q)

\* C4: a run of form posts that begins with a POST to p/question-1 or
\* p/question-2 and follows the redirects alternates between the two
\* questions of version p: each request is a POST under p, and each finished
\* request was redirected to p + the other question.
C4_WorkflowStaysInVersion ==
    \A c \in Clients : \A i \in 1..Len(mounts) : \A q \in {Question1, Question2} :
        LET p == mounts[i]
            n == Len(trail[c])
        IN  (n >= 1 /\ trail[c][1] = [method |-> "POST", url |-> p \o q]) =>
                /\ \A k \in 1..n :
                     trail[c][k] = [method |-> "POST", url |-> p \o QuestionAt(q, k)]
                /\ pc[c].at = "done" =>
                     /\ res[c].status = 302
                     /\ res[c].location = p \o QuestionAt(q, n + 1)

\* C4 witness: a client that began at /v2/question-2 has followed redirects
\* MaxHops times and holds a redirect again.
C4_Witness ==
    \E c \in Clients :
        /\ Len(trail[c]) = MaxHops + 1
        /\ trail[c][1] = [method |-> "POST", url |-> V2 \o Question2]
        /\ pc[c].at = "done"
        /\ res[c].status = 302
        /\ StartsWith(res[c].location, V2 \o Slash)

-----------------------------------------------------------------------------

\* C5 as claimed: after the rewriter ran twice on one request/response pair,
\* a redirect to a target t that begins with "/" reaches the original
\* redirect as p + t.
C5_NoDoublePrefix ==
    \A c \in Clients : \A e \in Entries(c) :
        (Len(e.via) = 2 /\ e.at = "sub" /\ PathAbsolute(e.target)) =>
            Destination(e) = e.mount \o e.target

-----------------------------------------------------------------------------

\* C6: the replaced method belongs to one request/response pair.  Whatever
\* the interleaving of requests, a response carries exactly the closures its
\* own request's rewriter runs installed (none when its request did not pass
\* through the rewriter), each closure reads the request of its own pair, and
\* each redirect is prefixed with the mount prefix of its own request.
C6_ScopedToOnePair ==
    \A c \in Clients :
        /\ Len(res[c].redirect) = ran[c]
        /\ \A k \in 1..Len(res[c].redirect) : res[c].redirect[k].req = c
        /\ \A e \in Entries(c) :
             /\ \A m \in 1..Len(e.made) : e.made[m].recv = c
             /\ (Wrapped(e) /\ PathAbsolute(e.target)) =>
                    Destination(e) = e.mount \o e.target

\* C6 witness: while a request under /v1 sits between its rewriter and its
\* handler, wrapper installed, a request under /v2 has been redirected with
\* /v2.
C6_Witness ==
    \E c, d \in Clients :
        /\ c # d
        /\ pc[c].at = "sub" /\ req[c].baseUrl = V1
        /\ ran[c] = 1 /\ Len(res[c].redirect) = 1
        /\ \E f \in Entries(d) :
             /\ f.mount = V2 /\ f.target = Question1
             /\ Destination(f) = V2 \o Question1

-----------------------------------------------------------------------------

\* C7: the wrapper has no failure of its own.  Every call of the wrapped
\* redirect reaches the original redirect, and what the caller sees raised is
\* exactly what the original redirect raised for that receiver, url and
\* state of the headers: nothing added, nothing caught, nothing replaced.
C7_ErrorsAreThePrimitives ==
    \A c \in Clients : \A e \in Entries(c) :
        Wrapped(e) =>
            /\ Len(e.made) >= 1
            /\ e.err = OriginalRedirect(e.made[Len(e.made)].recv,
                                        Destination(e), e.headersSent).err

\* C7 witness: a handler called the wrapped redirect after the headers were
\* sent, and saw the original redirect's error.
C7_Witness ==
    \E c \in Clients : \E e \in Entries(c) :
        /\ Wrapped(e)
        /\ e.headersSent
        /\ e.err = "ERR_HTTP_HEADERS_SENT"

-----------------------------------------------------------------------------

\* A route handler of the sub-router is about to run for request c.
AtRouteHandler(c) ==
    /\ pc[c].at = "sub"
    /\ pc[c].layer # 0
    /\ stack[pc[c].layer] # "rewriter"

\* C8: the rewriter runs before any route handler of the sub-router, replaces
\* res.redirect, calls next() once per run and issues no redirect itself; so
\* every redirect call of a sub-router handler goes through the wrapper.
C8_RewriterRunsFirst ==
    \A c \in Clients :
        /\ nexts[c] = ran[c]
        /\ pc[c].at = "sub" =>
             ran[c] = (IF pc[c].layer = 1 THEN 0 ELSE 1)
        /\ AtRouteHandler(c) =>
             /\ ran[c] = 1
             /\ Len(res[c].redirect) = 1
             /\ asked[c] = <<>>
        /\ \A e \in Entries(c) : e.at = "sub" => Wrapped(e)

\* C8 witness: the handler of /question-1 has redirected through the wrapper
\* that the rewriter installed before it ran.
C8_Witness ==
    \E c \in Clients :
        /\ req[c].path = Question1
        /\ ran[c] = 1 /\ nexts[c] = 1
        /\ Len(asked[c]) = 1
        /\ asked[c][1].at = "sub"
        /\ Len(asked[c][1].via) = 1

-----------------------------------------------------------------------------

\* The request of client c was handled by one of the two question routes.
QuestionPosted(c) ==
    /\ pc[c].at = "done"
    /\ req[c].method = "POST"
    /\ MountFrom(1, req[c].url) # 0
    /\ req[c].path \in {Question1, Question2}
    /\ req[c].url = req[c].baseUrl \o req[c].path

\* C9: each call of the wrapped redirect calls the original redirect exactly
\* once, on the response it was itself called on, and returns what the
\* original returned; a POST to /question-1 or /question-2 makes exactly one
\* such call, and the response carries the original's default status and the
\* destination it was given.
C9_DelegatesOnce ==
    \A c \in Clients :
        /\ \A e \in Entries(c) :
             Wrapped(e) =>
                /\ Len(e.made) = 1
                /\ e.made[1].recv = c
                /\ e.ret = OriginalRedirect(c, e.made[1].url, e.headersSent).ret
        /\ QuestionPosted(c) =>
             /\ Len(asked[c]) = 1
             /\ asked[c][1].ret = [kind |-> "redirected", to |-> res[c].location]
             /\ res[c].status = 302
             /\ res[c].headersSent

\* C9 witness: a POST to /v1/question-1 is finished with one call of the
\* original redirect, whose result the wrapper returned.
C9_Witness ==
    \E c \in Clients :
        /\ QuestionPosted(c)
        /\ req[c].url = V1 \o Question1
        /\ Len(asked[c]) = 1
        /\ Len(asked[c][1].made) = 1
        /\ asked[c][1].ret.kind = "redirected"

-----------------------------------------------------------------------------

\* The call e went through a closure installed under another baseUrl than
\* the request has at the call.
PrefixChanged(e) ==
    \E k \in 1..Len(e.via) : e.via[k].installedAt # e.baseUrl

\* C10: the prefix prepended is req.baseUrl as it is when the wrapped
\* redirect is called: when it has changed since the rewriter ran, a target
\* that begins with "/" gets the value current at the call.
C10_PrefixReadAtCall ==
    \A c \in Clients : \A e \in Entries(c) :
        (Wrapped(e) /\ PrefixChanged(e) /\ PathAbsolute(e.target)) =>
            Destination(e) = e.baseUrl \o e.target

\* C10 witness: the rewriter ran under /v1, the request left the sub-router,
\* and a later handler redirected to /question-2, which went out unprefixed.
C10_Witness ==
    \E c \in Clients : \E e \in Entries(c) :
        /\ Len(e.via) = 1
        /\ e.via[1].installedAt = V1
        /\ e.baseUrl = Empty
        /\ e.target = Question2
        /\ Destination(e) = Question2

=============================================================================
